---- MODULE Spec2Model ----
(***************************************************************************)
(* Model of the Wireguard key vault (src/src/wireguard.rs), its runner     *)
(* (src/src/main.rs) and the TOTP authenticator (src/src/authenticator.rs) *)
(* on top of a Trussed client.                                             *)
(*                                                                         *)
(* Every command is run by a fresh process (main.rs:29-96): the process    *)
(* mounts the state file (platform/store.rs:25-87), dispatches exactly one *)
(* command and exits.  The persistent state is the content of the state    *)
(* file: the files of the Trussed file store and the keys of the Trussed   *)
(* key store.                                                              *)
(*                                                                         *)
(* syscall!(..) unwraps the reply of the Trussed service, so a failing     *)
(* backend call inside syscall! aborts the process ("Panic"); try_syscall! *)
(* hands the failure back (authenticator.rs:140-145 shows that read_file   *)
(* of a missing file is such a failure).  State changes made before an     *)
(* abort stay in the state file.                                           *)
(***************************************************************************)
EXTENDS Integers, Sequences, FiniteSets, TLC

VARIABLES
    formatted,        \* the state file holds a littlefs filesystem
    unlocked_status,  \* content of /wg/unlocked_status (NoFile when missing)
    key_store,        \* content of /wg/key_store (NoFile when missing)
    credentials,      \* content of the credential files, by path
    keys,             \* the Trussed key store: secret key h is keys.sec[h]
    last,             \* the command run last: inputs, outcome, state before it
    registered,       \* history: the register commands that returned Ok
    hexstr_upper,     \* delog::hexstr! displays the digits above 9 in upper case
    running           \* the processes that run on the state file at once

vars ==
    <<formatted, unlocked_status, key_store, credentials, keys, last, registered,
      hexstr_upper, running>>

----------------------------------------------------------------------------
(* Bounds of the model *)

\* labels "k1" .. "k<MaxLabels>" offered to generate_key_pair
MaxLabels == 9
\* secret keys and public keys the backend key store may hold before the
\* model stops creating more
MaxSecretKeys == 9
MaxPublicKeys == 9
\* TOTP keys the key store may hold before the model stops injecting more
MaxTotpKeys == 2
\* pins / secrets offered to unlock and set_unlock_secret: 1 .. MaxPin
MaxPin == 2
\* uids offered to delete_key_pair: 0 .. MaxUid
NumProcs == 2

MaxUid == 0

(* Program constants *)

\* heapless::consts::U8, the capacity of the key collection
Capacity == 8
\* consts::U256, the capacity of a label ByteBuf
LabelCap == 256

----------------------------------------------------------------------------
(* Values *)

\* A file of the store: missing, or holding bytes
NoFile == [exists |-> FALSE, data |-> <<>>]
File(bytes) == [exists |-> TRUE, data |-> bytes]

UnlockedStatusPath == "/wg/unlocked_status"
KeyStorePath == "/wg/key_store"

\* A label is a byte string.  Label(i) is "k<i>"; LongLabel has LabelCap + 1
\* bytes.
Label(i) == <<107, 48 + i>>
LongLabel == [i \in 1..(LabelCap + 1) |-> 0]

\* Option<KeyInfo>
None == [some |-> FALSE, label |-> <<>>, privkey |-> 0]
Some(ki) == [some |-> TRUE, label |-> ki.label, privkey |-> ki.privkey]

\* The backend key store keeps secret and public keys apart.  A handle is the
\* position of its key (the backend draws a fresh id for every key it
\* stores).  The material of a generated secret key is fresh: it is named by
\* the handle it was generated under.  The handle of a derived public key is
\* never kept by the code, so of the public keys only their number is kept.
NoKeys == [sec |-> <<>>, pub |-> 0]
X255Secret(h) == [kind |-> "X255Secret", material |-> h]

\* Outcomes.  The code returns anyhow errors; they are named after the
\* failure the message reports.
Ok == "Ok"
Panic == "Panic"
DeviceLocked == "DeviceLocked"       \* "Device is locked. Unlock first."
DuplicateLabel == "DuplicateLabel"   \* "This key exists"
SecretMismatch == "SecretMismatch"   \* "Secret does not match"
EmptyError == "EmptyError"           \* ByteBuf::try_from_slice failed
VaultFull == "VaultFull"             \* named by the specification only
InvalidSecretEncoding == "InvalidSecretEncoding"   \* BASE32.decode failed
InvalidSecretLength == "InvalidSecretLength"       \* not 20 bytes
EncodingOverflow == "EncodingOverflow"   \* "postcard serialization error"
CredentialNotFound == "CredentialNotFound"   \* "Could not find a credential .."
DecodingError == "DecodingError"         \* "postcard deserialization error"
\* "Could not obtain confirmation of user presence!"
UserPresenceTimeout == "UserPresenceTimeout"

\* Responses.  pubkey is 0 for the bytes [0;32], and m > 0 for the serialized
\* public key of the secret key material m.
NoResp == [kind |-> "none", pubkey |-> 0, id |-> 0, label |-> <<>>, otp |-> <<>>]
\* "A key label!"
StubLabel == <<65, 32, 107, 101, 121, 32, 108, 97, 98, 101, 108, 33>>
\* KeyResponse{ pubkey : [0;32], id : 0, label : "A key label!" }
StubResp ==
    [kind |-> "KeyResponse", pubkey |-> 0, id |-> 0, label |-> StubLabel, otp |-> <<>>]
\* AEAD([0;32])
StubAead == [kind |-> "AEAD", pubkey |-> 0, id |-> 0, label |-> <<>>, otp |-> <<>>]

----------------------------------------------------------------------------
(* postcard: the wire format of the persisted records.  A byte is a natural *)
(* number; the 16-byte object id of a key handle is kept as one unit.       *)

RECURSIVE varint(_)
varint(n) == IF n < 128 THEN <<n>> ELSE <<128 + (n % 128)>> \o varint(n \div 128)

\* [ok, val, next]: the varint starting at bytes[pos]
RECURSIVE take_varint(_, _)
take_varint(bytes, pos) ==
    IF pos > Len(bytes) THEN [ok |-> FALSE, val |-> 0, next |-> pos]
    ELSE IF bytes[pos] < 128 THEN [ok |-> TRUE, val |-> bytes[pos], next |-> pos + 1]
    ELSE LET r == take_varint(bytes, pos + 1)
         IN [ok |-> r.ok, val |-> (bytes[pos] - 128) + 128 * r.val, next |-> r.next]

\* UnlockStatus{ is_unlocked : bool }
to_slice_UnlockStatus(status) == IF status THEN <<1>> ELSE <<0>>

from_bytes_UnlockStatus(bytes) ==
    IF Len(bytes) = 0 THEN [ok |-> FALSE, val |-> FALSE]
    ELSE IF bytes[1] = 0 THEN [ok |-> TRUE, val |-> FALSE]
    ELSE IF bytes[1] = 1 THEN [ok |-> TRUE, val |-> TRUE]
    ELSE [ok |-> FALSE, val |-> FALSE]

\* KeyInfo{ label : ByteBuf<U256>, privkey : ObjectHandle }
to_slice_KeyInfo(ki) == varint(Len(ki.label)) \o ki.label \o <<ki.privkey>>

\* An Option written without its tag byte when it is None
to_slice_Option_no_tag(o) == IF o.some THEN <<1>> \o to_slice_KeyInfo(o) ELSE <<>>

to_slice_Option(o) == IF o.some THEN <<1>> \o to_slice_KeyInfo(o) ELSE <<0>>

RECURSIVE to_slice_Elems(_)
to_slice_Elems(v) ==
    IF v = <<>> THEN <<>> ELSE to_slice_Option(Head(v)) \o to_slice_Elems(Tail(v))

\* Vec<Option<KeyInfo>, U8>
to_slice_KeyInfos(v) == varint(Len(v)) \o to_slice_Elems(v)

take_KeyInfo(bytes, pos) ==
    LET n == take_varint(bytes, pos)
        stop == n.next + n.val
    IN IF ~n.ok \/ n.val > LabelCap \/ stop > Len(bytes)
       THEN [ok |-> FALSE, val |-> None, next |-> pos]
       ELSE [ok |-> TRUE,
             val |-> [some |-> TRUE,
                      label |-> SubSeq(bytes, n.next, stop - 1),
                      privkey |-> bytes[stop]],
             next |-> stop + 1]

take_Option(bytes, pos) ==
    IF pos > Len(bytes) THEN [ok |-> FALSE, val |-> None, next |-> pos]
    ELSE IF bytes[pos] = 0 THEN [ok |-> TRUE, val |-> None, next |-> pos + 1]
    ELSE IF bytes[pos] = 1 THEN take_KeyInfo(bytes, pos + 1)
    ELSE [ok |-> FALSE, val |-> None, next |-> pos]

RECURSIVE take_Elems(_, _, _)
take_Elems(bytes, pos, n) ==
    IF n = 0 THEN [ok |-> TRUE, val |-> <<>>]
    ELSE LET e == take_Option(bytes, pos)
         IN IF ~e.ok THEN [ok |-> FALSE, val |-> <<>>]
            ELSE LET r == take_Elems(bytes, e.next, n - 1)
                 IN [ok |-> r.ok, val |-> IF r.ok THEN <<e.val>> \o r.val ELSE <<>>]

\* postcard::from_bytes into a Vec of capacity 8: more elements do not fit
from_bytes_KeyInfos(bytes) ==
    LET n == take_varint(bytes, 1)
    IN IF ~n.ok \/ n.val > Capacity THEN [ok |-> FALSE, val |-> <<>>]
       ELSE take_Elems(bytes, n.next, n.val)

\* u64, as 8 little-endian bytes
RECURSIVE to_le_bytes(_, _)
to_le_bytes(n, width) ==
    IF width = 0 THEN <<>> ELSE <<n % 256>> \o to_le_bytes(n \div 256, width - 1)

RECURSIVE from_le_bytes(_)
from_le_bytes(bytes) ==
    IF bytes = <<>> THEN 0 ELSE Head(bytes) + 256 * from_le_bytes(Tail(bytes))

\* Credential{ label : ByteBuf<U256>, period_seconds : u64, key_handle }
to_slice_Credential(c) ==
    varint(Len(c.label)) \o c.label \o to_le_bytes(c.period_seconds, 8)
        \o <<c.key_handle>>

NoCredential == [label |-> <<>>, period_seconds |-> 0, key_handle |-> 0]

from_bytes_Credential(bytes) ==
    LET n == take_varint(bytes, 1)
        stop == n.next + n.val
    IN IF ~n.ok \/ n.val > LabelCap \/ stop + 8 > Len(bytes)
       THEN [ok |-> FALSE, val |-> NoCredential]
       ELSE [ok |-> TRUE,
             val |-> [label |-> SubSeq(bytes, n.next, stop - 1),
                      period_seconds |-> from_le_bytes(SubSeq(bytes, stop, stop + 7)),
                      key_handle |-> bytes[stop + 8]]]

----------------------------------------------------------------------------
(* Labels of credentials and their storage address *)

\* "alice@example"
Alice == <<97, 108, 105, 99, 101, 64, 101, 120, 97, 109, 112, 108, 101>>
\* "bob"
Bob == <<98, 111, 98>>

\* The first 8 bytes of the digest the backend returns for hash(Sha256, label).
\* The digest is the backend's; all the model keeps of it is that it depends
\* on the label alone.
Sha256Prefix(label) ==
    IF label = Alice THEN <<64, 173, 248, 79, 178, 150, 144, 136>>
    ELSE IF label = Bob THEN <<129, 182, 55, 216, 252, 210, 198, 218>>
    ELSE <<227, 176, 196, 66, 152, 252, 28, 20>>   \* any other label

HEX_CHARS ==
    <<"0", "1", "2", "3", "4", "5", "6", "7", "8", "9", "a", "b", "c", "d", "e", "f">>

\* two hexadecimal digits per byte, high nibble first, the digits above 9 in
\* upper case
RECURSIVE format_hex_upper(_)
format_hex_upper(data) ==
    LET HEX_UPPER == <<"0", "1", "2", "3", "4", "5", "6", "7", "8", "9",
                       "A", "B", "C", "D", "E", "F">>
    IN IF data = <<>> THEN <<>>
       ELSE <<HEX_UPPER[(Head(data) \div 16) + 1], HEX_UPPER[(Head(data) % 16) + 1]>>
               \o format_hex_upper(Tail(data))

\* two hexadecimal digits per byte, high nibble first, the digits above 9 in
\* lower case
RECURSIVE format_hex(_)
format_hex(data) ==
    IF data = <<>> THEN <<>>
    ELSE <<HEX_CHARS[(Head(data) \div 16) + 1], HEX_CHARS[(Head(data) % 16) + 1]>>
            \o format_hex(Tail(data))

\* filename_for_label that writes the digits in the other letter case
filename_other_case(label) ==
    IF hexstr_upper THEN format_hex(Sha256Prefix(label))
    ELSE format_hex_upper(Sha256Prefix(label))

\* The address is written with format_args!("{}", delog::hexstr!(..)).  The
\* letter case of that Display implementation is the delog crate's, which is
\* not among the sources: it is one of the two, the same in every run.
filename_for_label(label) ==
    IF hexstr_upper THEN format_hex_upper(Sha256Prefix(label))
    ELSE format_hex(Sha256Prefix(label))

TotpLabels == {Alice, Bob}

\* The names a credential file can have
Addresses ==
    UNION {{format_hex(Sha256Prefix(l)), format_hex_upper(Sha256Prefix(l))} :
              l \in TotpLabels \cup {LongLabel}}

----------------------------------------------------------------------------
(* The state file *)

NoCredentials == [a \in Addresses |-> NoFile]

\* A filesystem without files and keys: what formatting leaves.
EmptyStore ==
    [unlocked_status |-> NoFile, key_store |-> NoFile,
     credentials |-> NoCredentials, keys |-> NoKeys]

\* store.mount(.., true): existing data is trashed at every start
init_store_trash == EmptyStore

\* The store a process works on: the state file is mounted as it is, and
\* formatted only when it holds no filesystem.
init_store ==
    IF formatted
    THEN [unlocked_status |-> unlocked_status, key_store |-> key_store,
          credentials |-> credentials, keys |-> keys]
    ELSE EmptyStore

----------------------------------------------------------------------------
(* Wireguard (src/src/wireguard.rs).  An operation maps the mounted store s  *)
(* and its parameters to an outcome:                                         *)
(*   st      the store it leaves,                                            *)
(*   result  Ok, the error returned, or Panic when the process aborted,      *)
(*   written the paths of the write_file calls it made, in order,            *)
(*   resp    the value returned with Ok,                                     *)
(*   calls   the signing and user-presence requests it sent to the backend.  *)

OutcomeC(st, result, written, resp, calls) ==
    [st |-> st, result |-> result, written |-> written, resp |-> resp,
     calls |-> calls]

Outcome(st, result, written, resp) == OutcomeC(st, result, written, resp, <<>>)

\* [panic, value]: the flag, or an abort when the record is missing or does
\* not decode
is_unlocked(s) ==
    IF ~s.unlocked_status.exists THEN [panic |-> TRUE, value |-> FALSE]
    ELSE LET d == from_bytes_UnlockStatus(s.unlocked_status.data)
         IN [panic |-> ~d.ok, value |-> d.ok /\ d.val]

set_unlock_status(s, status) ==
    [s EXCEPT !.unlocked_status = File(to_slice_UnlockStatus(status))]

\* [panic, value]: the collection; an abort when the record is missing, the
\* empty collection when it does not decode
get_list_keys(s) ==
    IF ~s.key_store.exists THEN [panic |-> TRUE, value |-> <<>>]
    ELSE LET d == from_bytes_KeyInfos(s.key_store.data)
         IN [panic |-> FALSE, value |-> IF d.ok THEN d.val ELSE <<>>]

\* push on a Vec without a capacity
push_unbounded(key_infos, ele) == Append(key_infos, ele)

\* key_infos.push(..): the element is dropped when the Vec is full
push(key_infos, ele) ==
    IF Len(key_infos) < Capacity THEN Append(key_infos, ele) ELSE key_infos

\* add_to_key_store without the scan for an existing label
add_to_key_store_no_scan(s, val) ==
    LET g == get_list_keys(s)
    IN IF g.panic THEN Outcome(s, Panic, <<>>, NoResp)
       ELSE Outcome([s EXCEPT !.key_store =
                        File(to_slice_KeyInfos(push(g.value, Some(val))))],
                    Ok, <<KeyStorePath>>, NoResp)

\* add_to_key_store that replaces the entry of an existing label
add_to_key_store_replace(s, val) ==
    LET g == get_list_keys(s)
        key_infos == g.value
        dup == {i \in 1..Len(key_infos) :
                  key_infos[i].some /\ key_infos[i].label = val.label}
        stored == IF dup = {} THEN push(key_infos, Some(val))
                  ELSE [i \in 1..Len(key_infos) |->
                          IF i \in dup THEN Some(val) ELSE key_infos[i]]
    IN IF g.panic THEN Outcome(s, Panic, <<>>, NoResp)
       ELSE Outcome([s EXCEPT !.key_store = File(to_slice_KeyInfos(stored))],
                    IF dup = {} THEN Ok ELSE DuplicateLabel,
                    <<KeyStorePath>>, NoResp)

\* add_to_key_store that writes the collection back before the scan
add_to_key_store_write_first(s, val) ==
    LET g == get_list_keys(s)
        key_infos == g.value
        s1 == [s EXCEPT !.key_store = File(to_slice_KeyInfos(key_infos))]
    IN IF g.panic THEN Outcome(s, Panic, <<>>, NoResp)
       ELSE IF \E i \in 1..Len(key_infos) :
                  key_infos[i].some /\ key_infos[i].label = val.label
       THEN Outcome(s1, DuplicateLabel, <<KeyStorePath>>, NoResp)
       ELSE Outcome([s EXCEPT !.key_store =
                        File(to_slice_KeyInfos(push(key_infos, Some(val))))],
                    Ok, <<KeyStorePath>>, NoResp)

add_to_key_store(s, val) ==
    LET g == get_list_keys(s)
        key_infos == g.value
    IN IF g.panic THEN Outcome(s, Panic, <<>>, NoResp)
       ELSE IF \E i \in 1..Len(key_infos) :
                  key_infos[i].some /\ key_infos[i].label = val.label
       THEN Outcome(s, DuplicateLabel, <<>>, NoResp)
       ELSE Outcome([s EXCEPT !.key_store =
                        File(to_slice_KeyInfos(push(key_infos, Some(val))))],
                    Ok, <<KeyStorePath>>, NoResp)

is_secret_equal(s, secret) == TRUE

set_unlock_secret(s, secret) == Outcome(s, Ok, <<>>, NoResp)

\* unlock that also writes an empty key collection
unlock_clear_vault(s, pin) ==
    IF ~is_secret_equal(s, pin) THEN Outcome(s, SecretMismatch, <<>>, NoResp)
    ELSE LET s1 == set_unlock_status(s, TRUE)
             s2 == [s1 EXCEPT !.key_store = File(to_slice_KeyInfos(<<>>))]
         IN Outcome(s2, IF is_unlocked(s2).panic THEN Panic ELSE Ok,
                    <<UnlockedStatusPath, KeyStorePath>>, NoResp)

unlock(s, pin) ==
    IF ~is_secret_equal(s, pin) THEN Outcome(s, SecretMismatch, <<>>, NoResp)
    ELSE LET s1 == set_unlock_status(s, TRUE)
         IN Outcome(s1, IF is_unlocked(s1).panic THEN Panic ELSE Ok,
                    <<UnlockedStatusPath>>, NoResp)

register_key_pair(s, label) ==
    LET u == is_unlocked(s)
    IN IF u.panic THEN Outcome(s, Panic, <<>>, NoResp)
       ELSE IF ~u.value THEN Outcome(s, DeviceLocked, <<>>, NoResp)
       ELSE Outcome(s, Ok, <<>>, StubResp)

update_key_pair(s, label) == Outcome(s, Ok, <<>>, StubResp)

delete_key_pair(s, uid) == Outcome(s, Ok, <<>>, NoResp)

\* generate_x255_secret_key(Internal): [keys, key]
generate_x255_secret_key(ks) ==
    [keys |-> [ks EXCEPT !.sec = Append(ks.sec, X255Secret(Len(ks.sec) + 1))],
     key |-> Len(ks.sec) + 1]

\* derive_x255_public_key(privkey, Internal): [panic, keys, key, material];
\* the backend fails when the handle names no X255 secret key
derive_x255_public_key(ks, privkey) ==
    IF privkey \in 1..Len(ks.sec) /\ ks.sec[privkey].kind = "X255Secret"
    THEN [panic |-> FALSE, keys |-> [ks EXCEPT !.pub = ks.pub + 1],
          key |-> ks.pub + 1, material |-> ks.sec[privkey].material]
    ELSE [panic |-> TRUE, keys |-> ks, key |-> 0, material |-> 0]

\* The loop of list_keys over key_list[i..]: [panic, keys]
RECURSIVE list_keys_loop(_, _, _)
list_keys_loop(ks, key_list, i) ==
    IF i > Len(key_list) THEN [panic |-> FALSE, keys |-> ks]
    ELSE IF ~key_list[i].some THEN [panic |-> TRUE, keys |-> ks]
    ELSE LET d == derive_x255_public_key(ks, key_list[i].privkey)
         IN IF d.panic THEN [panic |-> TRUE, keys |-> ks]
            ELSE list_keys_loop(d.keys, key_list, i + 1)

list_keys(s) ==
    LET g == get_list_keys(s)
        l == list_keys_loop(s.keys, g.value, 1)
    IN IF g.panic THEN Outcome(s, Panic, <<>>, NoResp)
       ELSE Outcome([s EXCEPT !.keys = l.keys],
                    IF l.panic THEN Panic ELSE Ok, <<>>,
                    IF l.panic THEN NoResp ELSE StubResp)

\* serialize_key(X255, pubkey, Raw) of the public key derived as d
serialize_key(d) == d.material

generate_key_pair(s, label) ==
    LET g == generate_x255_secret_key(s.keys)
        privkey == g.key
        d == derive_x255_public_key(g.keys, privkey)
        s1 == [s EXCEPT !.keys = d.keys]
        a == add_to_key_store(s1, [label |-> label, privkey |-> privkey])
    IN IF Len(label) > LabelCap THEN Outcome(s1, EmptyError, <<>>, NoResp)
       ELSE IF a.result # Ok THEN a
       ELSE Outcome(a.st, Ok, a.written,
                    [kind |-> "KeyResponse", pubkey |-> serialize_key(d),
                     id |-> 0, label |-> label, otp |-> <<>>])

get_aead(s, key_id) == Outcome(s, Ok, <<>>, StubAead)

----------------------------------------------------------------------------
(* Authenticator (src/src/authenticator.rs) *)

\* The base32 alphabet of RFC 4648; a string is a sequence of characters
BASE32_SYMBOLS ==
    <<"A", "B", "C", "D", "E", "F", "G", "H", "I", "J", "K", "L", "M", "N", "O", "P",
      "Q", "R", "S", "T", "U", "V", "W", "X", "Y", "Z", "2", "3", "4", "5", "6", "7">>

base32_value(c) == (CHOOSE i \in 1..32 : BASE32_SYMBOLS[i] = c) - 1

\* 8 symbols of 5 bits are 5 bytes
base32_block(v) ==
    <<v[1] * 8 + v[2] \div 4,
      (v[2] % 4) * 64 + v[3] * 2 + v[4] \div 16,
      (v[4] % 16) * 16 + v[5] \div 2,
      (v[5] % 2) * 128 + v[6] * 4 + v[7] \div 8,
      (v[7] % 8) * 32 + v[8]>>

RECURSIVE base32_blocks(_)
base32_blocks(str) ==
    IF str = <<>> THEN <<>>
    ELSE base32_block([i \in 1..8 |-> base32_value(str[i])])
            \o base32_blocks(SubSeq(str, 9, Len(str)))

\* data_encoding::BASE32.decode of a string without padding characters:
\* [ok, bytes]; the length is a multiple of 8 and every symbol is of the
\* alphabet, or the decoding fails
BASE32_decode(str) ==
    IF Len(str) % 8 # 0
          \/ \E i \in 1..Len(str) : \A j \in 1..32 : BASE32_SYMBOLS[j] # str[i]
    THEN [ok |-> FALSE, bytes |-> <<>>]
    ELSE [ok |-> TRUE, bytes |-> base32_blocks(str)]

\* unsafe_inject_totp_key that answers with the handle of the key before
unsafe_inject_totp_key_stale(ks, raw_key) ==
    [keys |-> [ks EXCEPT !.sec = Append(ks.sec, [kind |-> "Totp", material |-> raw_key])],
     key |-> Len(ks.sec)]

\* unsafe_inject_totp_key at a location that does not outlive the process:
\* the handle is returned, the key is not kept
unsafe_inject_totp_key_volatile(ks, raw_key) ==
    [keys |-> ks, key |-> Len(ks.sec) + 1]

\* unsafe_inject_totp_key(raw_key, Internal): [keys, key]
unsafe_inject_totp_key(ks, raw_key) ==
    [keys |-> [ks EXCEPT !.sec = Append(ks.sec, [kind |-> "Totp", material |-> raw_key])],
     key |-> Len(ks.sec) + 1]

\* sign_totp(key_handle, counter): [panic, signature]; the backend fails when
\* the handle names no TOTP key.  The signature is the backend's: it is kept
\* as the key material and the counter it was computed from.
sign_totp(ks, key_handle, counter) ==
    IF key_handle \in 1..Len(ks.sec) /\ ks.sec[key_handle].kind = "Totp"
    THEN [panic |-> FALSE,
          signature |-> <<ks.sec[key_handle].material, counter>>]
    ELSE [panic |-> TRUE, signature |-> <<>>]

SignCall(key_handle, counter) ==
    [call |-> "sign_totp", key |-> key_handle, counter |-> counter, timeout |-> 0]
PresenceCall(timeout) ==
    [call |-> "confirm_user_present", key |-> 0, counter |-> 0, timeout |-> timeout]

\* register that leaves the file of an address that is in use as it is
register_keep_first(s, label, base32_secret, period_seconds) ==
    LET raw_key_bytes == BASE32_decode(base32_secret)
        k == unsafe_inject_totp_key(s.keys, raw_key_bytes.bytes)
        s1 == [s EXCEPT !.keys = k.keys]
        credential == [label |-> label, period_seconds |-> period_seconds,
                       key_handle |-> k.key]
        filename == filename_for_label(label)
    IN IF ~raw_key_bytes.ok THEN Outcome(s, InvalidSecretEncoding, <<>>, NoResp)
       ELSE IF Len(raw_key_bytes.bytes) # 20
       THEN Outcome(s, InvalidSecretLength, <<>>, NoResp)
       ELSE IF Len(label) > LabelCap THEN Outcome(s1, EmptyError, <<>>, NoResp)
       ELSE IF s1.credentials[filename].exists THEN Outcome(s1, Ok, <<>>, NoResp)
       ELSE Outcome([s1 EXCEPT !.credentials[filename] =
                        File(to_slice_Credential(credential))],
                    Ok, <<filename>>, NoResp)

\* register that imports the key before it looks at the length of the secret
register_inject_first(s, label, base32_secret, period_seconds) ==
    LET raw_key_bytes == BASE32_decode(base32_secret)
        k == unsafe_inject_totp_key(s.keys, raw_key_bytes.bytes)
        s1 == [s EXCEPT !.keys = k.keys]
        credential == [label |-> label, period_seconds |-> period_seconds,
                       key_handle |-> k.key]
        filename == filename_for_label(label)
    IN IF ~raw_key_bytes.ok THEN Outcome(s, InvalidSecretEncoding, <<>>, NoResp)
       ELSE IF Len(raw_key_bytes.bytes) # 20
       THEN Outcome(s1, InvalidSecretLength, <<>>, NoResp)
       ELSE IF Len(label) > LabelCap THEN Outcome(s1, EmptyError, <<>>, NoResp)
       ELSE Outcome([s1 EXCEPT !.credentials[filename] =
                        File(to_slice_Credential(credential))],
                    Ok, <<filename>>, NoResp)

\* register that writes every credential to the file of one label
register_fixed_path(s, label, base32_secret, period_seconds) ==
    LET raw_key_bytes == BASE32_decode(base32_secret)
        k == unsafe_inject_totp_key(s.keys, raw_key_bytes.bytes)
        s1 == [s EXCEPT !.keys = k.keys]
        credential == [label |-> label, period_seconds |-> period_seconds,
                       key_handle |-> k.key]
        filename == filename_for_label(Alice)
    IN IF ~raw_key_bytes.ok THEN Outcome(s, InvalidSecretEncoding, <<>>, NoResp)
       ELSE IF Len(raw_key_bytes.bytes) # 20
       THEN Outcome(s, InvalidSecretLength, <<>>, NoResp)
       ELSE IF Len(label) > LabelCap THEN Outcome(s1, EmptyError, <<>>, NoResp)
       ELSE Outcome([s1 EXCEPT !.credentials[filename] =
                        File(to_slice_Credential(credential))],
                    Ok, <<filename>>, NoResp)

register(s, label, base32_secret, period_seconds) ==
    LET raw_key_bytes == BASE32_decode(base32_secret)
        k == unsafe_inject_totp_key(s.keys, raw_key_bytes.bytes)
        s1 == [s EXCEPT !.keys = k.keys]
        credential == [label |-> label, period_seconds |-> period_seconds,
                       key_handle |-> k.key]
        filename == filename_for_label(label)
    IN IF ~raw_key_bytes.ok THEN Outcome(s, InvalidSecretEncoding, <<>>, NoResp)
       ELSE IF Len(raw_key_bytes.bytes) # 20
       THEN Outcome(s, InvalidSecretLength, <<>>, NoResp)
       ELSE IF Len(label) > LabelCap THEN Outcome(s1, EmptyError, <<>>, NoResp)
       ELSE Outcome([s1 EXCEPT !.credentials[filename] =
                        File(to_slice_Credential(credential))],
                    Ok, <<filename>>, NoResp)

\* authenticate that asks the backend to sign before it looks for the file
authenticate_sign_first(s, label, timestamp, confirmed) ==
    LET filename == filename_for_label(label)
        file == s.credentials[filename]
        d == from_bytes_Credential(file.data)
        credential == d.val
        counter == timestamp \div credential.period_seconds
        otp == sign_totp(s.keys, credential.key_handle, counter)
        calls == <<SignCall(credential.key_handle, counter), PresenceCall(5000)>>
    IN IF ~file.exists
       THEN OutcomeC(s, CredentialNotFound, <<>>, NoResp, <<SignCall(0, timestamp)>>)
       ELSE IF ~d.ok THEN Outcome(s, DecodingError, <<>>, NoResp)
       ELSE IF credential.period_seconds = 0 THEN Outcome(s, Panic, <<>>, NoResp)
       ELSE IF otp.panic
       THEN OutcomeC(s, Panic, <<>>, NoResp, <<SignCall(credential.key_handle, counter)>>)
       ELSE IF ~confirmed THEN OutcomeC(s, UserPresenceTimeout, <<>>, NoResp, calls)
       ELSE OutcomeC(s, Ok, <<>>,
                     [kind |-> "Otp", pubkey |-> 0, id |-> 0, label |-> <<>>,
                      otp |-> otp.signature],
                     calls)

\* authenticate that rounds the counter up
authenticate_round_up(s, label, timestamp, confirmed) ==
    LET filename == filename_for_label(label)
        file == s.credentials[filename]
        d == from_bytes_Credential(file.data)
        credential == d.val
        counter == (timestamp + credential.period_seconds - 1)
                       \div credential.period_seconds
        otp == sign_totp(s.keys, credential.key_handle, counter)
        calls == <<SignCall(credential.key_handle, counter), PresenceCall(5000)>>
    IN IF ~file.exists THEN Outcome(s, CredentialNotFound, <<>>, NoResp)
       ELSE IF ~d.ok THEN Outcome(s, DecodingError, <<>>, NoResp)
       ELSE IF credential.period_seconds = 0 THEN Outcome(s, Panic, <<>>, NoResp)
       ELSE IF otp.panic
       THEN OutcomeC(s, Panic, <<>>, NoResp, <<SignCall(credential.key_handle, counter)>>)
       ELSE IF ~confirmed THEN OutcomeC(s, UserPresenceTimeout, <<>>, NoResp, calls)
       ELSE OutcomeC(s, Ok, <<>>,
                     [kind |-> "Otp", pubkey |-> 0, id |-> 0, label |-> <<>>,
                      otp |-> otp.signature],
                     calls)

\* authenticate that returns the one-time password without asking for the
\* user's presence
authenticate_no_presence(s, label, timestamp, confirmed) ==
    LET filename == filename_for_label(label)
        file == s.credentials[filename]
        d == from_bytes_Credential(file.data)
        credential == d.val
        counter == timestamp \div credential.period_seconds
        otp == sign_totp(s.keys, credential.key_handle, counter)
    IN IF ~file.exists THEN Outcome(s, CredentialNotFound, <<>>, NoResp)
       ELSE IF ~d.ok THEN Outcome(s, DecodingError, <<>>, NoResp)
       ELSE IF credential.period_seconds = 0 THEN Outcome(s, Panic, <<>>, NoResp)
       ELSE IF otp.panic
       THEN OutcomeC(s, Panic, <<>>, NoResp, <<SignCall(credential.key_handle, counter)>>)
       ELSE OutcomeC(s, Ok, <<>>,
                     [kind |-> "Otp", pubkey |-> 0, id |-> 0, label |-> <<>>,
                      otp |-> otp.signature],
                     <<SignCall(credential.key_handle, counter)>>)

\* confirmed: whether the user confirms presence within the timeout
\* authenticate that removes the credential once a password was returned
authenticate_consume(s, label, timestamp, confirmed) ==
    LET filename == filename_for_label(label)
        file == s.credentials[filename]
        d == from_bytes_Credential(file.data)
        credential == d.val
        counter == timestamp \div credential.period_seconds
        otp == sign_totp(s.keys, credential.key_handle, counter)
        calls == <<SignCall(credential.key_handle, counter), PresenceCall(5000)>>
    IN IF ~file.exists THEN Outcome(s, CredentialNotFound, <<>>, NoResp)
       ELSE IF ~d.ok THEN Outcome(s, DecodingError, <<>>, NoResp)
       ELSE IF credential.period_seconds = 0 THEN Outcome(s, Panic, <<>>, NoResp)
       ELSE IF otp.panic
       THEN OutcomeC(s, Panic, <<>>, NoResp, <<SignCall(credential.key_handle, counter)>>)
       ELSE IF ~confirmed THEN OutcomeC(s, UserPresenceTimeout, <<>>, NoResp, calls)
       ELSE OutcomeC([s EXCEPT !.credentials[filename] = NoFile], Ok, <<>>,
                     [kind |-> "Otp", pubkey |-> 0, id |-> 0, label |-> <<>>,
                      otp |-> otp.signature],
                     calls)

authenticate(s, label, timestamp, confirmed) ==
    LET filename == filename_for_label(label)
        file == s.credentials[filename]
        d == from_bytes_Credential(file.data)
        credential == d.val
        counter == timestamp \div credential.period_seconds
        otp == sign_totp(s.keys, credential.key_handle, counter)
        calls == <<SignCall(credential.key_handle, counter), PresenceCall(5000)>>
    IN IF ~file.exists THEN Outcome(s, CredentialNotFound, <<>>, NoResp)
       ELSE IF ~d.ok THEN Outcome(s, DecodingError, <<>>, NoResp)
       ELSE IF credential.period_seconds = 0 THEN Outcome(s, Panic, <<>>, NoResp)
       ELSE IF otp.panic
       THEN OutcomeC(s, Panic, <<>>, NoResp, <<SignCall(credential.key_handle, counter)>>)
       ELSE IF ~confirmed THEN OutcomeC(s, UserPresenceTimeout, <<>>, NoResp, calls)
       ELSE OutcomeC(s, Ok, <<>>,
                     [kind |-> "Otp", pubkey |-> 0, id |-> 0, label |-> <<>>,
                      otp |-> otp.signature],
                     calls)

\* u64::from_le_bytes(otp[..8].try_into().unwrap()) reduced modulo 10^6
otp_mod_million(signature) ==
    IF Len(signature) < 8 THEN [panic |-> TRUE, value |-> 0]
    ELSE [panic |-> FALSE,
          value |-> from_le_bytes(SubSeq(signature, 1, 8)) % 1000000]

\* u64::from_le_bytes(otp[..8].try_into().unwrap()): [panic, value]; the
\* slice otp[..8] aborts on a signature of less than 8 bytes
otp_from_signature(signature) ==
    IF Len(signature) < 8 THEN [panic |-> TRUE, value |-> 0]
    ELSE [panic |-> FALSE, value |-> from_le_bytes(SubSeq(signature, 1, 8))]

----------------------------------------------------------------------------
(* The runner (src/src/main.rs): one process per command *)

\* The collection a reader of the record sees (nothing when it is missing or
\* does not decode)
Slots(file) ==
    IF ~file.exists THEN <<>>
    ELSE LET d == from_bytes_KeyInfos(file.data) IN IF d.ok THEN d.val ELSE <<>>

PresentLabels(file) ==
    LET v == Slots(file) IN {v[i].label : i \in {j \in 1..Len(v) : v[j].some}}

NumPresent(file) ==
    LET v == Slots(file) IN Cardinality({j \in 1..Len(v) : v[j].some})

\* The processes started on one state file, each to run
\* generate_key_pair(Label(p)); nothing in the code keeps a second process
\* from opening the state file of a first one (store.rs:92-108)
Procs == 1..NumProcs

NotStarted ==
    [p \in Procs |-> [pc |-> "start", label |-> Label(p), privkey |-> 0,
                      key_infos |-> <<>>, result |-> "none"]]

\* Labels are only compared for equality (wireguard.rs:291), so which unused
\* label a caller picks makes no difference, and the labels in use are
\* k1..kn in the order of their slots.  The labels offered are the one the
\* scan meets first, the one it meets last, the first unused one, and one
\* that is too long.
OfferedLabels ==
    LET n == Cardinality(PresentLabels(key_store))
    IN {Label(i) : i \in {j \in 1..MaxLabels : j \in {1, n, n + 1}}}
       \cup {LongLabel}

Pins == 1..MaxPin
Uids == 0..MaxUid

\* "JBSWY3DPEHPK3PXPJBSWY3DPEHPK3PXP" (cli.rs:55): 20 bytes
SecretHello ==
    <<"J", "B", "S", "W", "Y", "3", "D", "P", "E", "H", "P", "K", "3", "P", "X", "P",
      "J", "B", "S", "W", "Y", "3", "D", "P", "E", "H", "P", "K", "3", "P", "X", "P">>
\* "GEZDGNBVGY3TQOJQGEZDGNBVGY3TQOJQ": the 20 bytes "12345678901234567890"
SecretDigits ==
    <<"G", "E", "Z", "D", "G", "N", "B", "V", "G", "Y", "3", "T", "Q", "O", "J", "Q",
      "G", "E", "Z", "D", "G", "N", "B", "V", "G", "Y", "3", "T", "Q", "O", "J", "Q">>
\* "JBSWY3DPEHPK3PXP" (cli.rs:45): 10 bytes
SecretShort ==
    <<"J", "B", "S", "W", "Y", "3", "D", "P", "E", "H", "P", "K", "3", "P", "X", "P">>
\* "JBSWY3DPEHPK3PX1": "1" is no base32 symbol
SecretBadSymbol ==
    <<"J", "B", "S", "W", "Y", "3", "D", "P", "E", "H", "P", "K", "3", "P", "X", "1">>

\* The parameters offered to register.  The secret is decoded before the
\* label and the period are looked at (authenticator.rs:95-112), so the
\* secrets that do not decode and the label that is too long are offered
\* with one choice of the other parameters.
RegisterInputs ==
    {<<l, b, p>> : l \in TotpLabels, b \in {SecretHello, SecretDigits}, p \in {0, 30, 60}}
    \cup {<<Alice, SecretShort, 30>>, <<Alice, SecretBadSymbol, 30>>,
          <<LongLabel, SecretHello, 30>>}

AuthenticateInputs ==
    {<<l, t, c>> : l \in TotpLabels, t \in {59, 90}, c \in BOOLEAN}
    \cup {<<LongLabel, 90, TRUE>>}

NoArgs ==
    [op |-> "none", label |-> <<>>, pin |-> 0, uid |-> 0, secret |-> <<>>,
     period |-> 0, timestamp |-> 0, confirmed |-> FALSE]

Command(op) == [NoArgs EXCEPT !.op = op]

\* What a command leaves: the store, and the record of the command
Dispatch(cmd, out) ==
    /\ formatted' = TRUE
    /\ hexstr_upper' = hexstr_upper
    /\ running' = running
    /\ unlocked_status' = out.st.unlocked_status
    /\ key_store' = out.st.key_store
    /\ credentials' = out.st.credentials
    /\ keys' = out.st.keys
    /\ last' = [op |-> cmd.op, label |-> cmd.label, pin |-> cmd.pin, uid |-> cmd.uid,
                secret |-> cmd.secret, period |-> cmd.period,
                timestamp |-> cmd.timestamp, confirmed |-> cmd.confirmed,
                result |-> out.result, written |-> out.written,
                resp |-> out.resp, calls |-> out.calls, pre |-> init_store]
    /\ registered' =
          IF cmd.op = "register" /\ out.result = Ok
          THEN Append(registered,
                      [label |-> cmd.label, secret |-> cmd.secret,
                       period |-> cmd.period, key_handle |-> Len(out.st.keys.sec),
                       filename |-> IF out.written = <<>> THEN <<>>
                                    ELSE out.written[1]])
          ELSE registered

\* What main returns for the result of the command it dispatched: the result
\* is dropped with .ok() and main ends with Ok(()); a panic unwinds main
main(result) == IF result = Panic THEN Panic ELSE Ok

Unlock(pin) ==
    Dispatch([Command("unlock") EXCEPT !.pin = pin], unlock(init_store, pin))

RegisterKeyPair(label) ==
    Dispatch([Command("register_key_pair") EXCEPT !.label = label],
             register_key_pair(init_store, label))

UpdateKeyPair(label) ==
    Dispatch([Command("update_key_pair") EXCEPT !.label = label],
             update_key_pair(init_store, label))

DeleteKeyPair(uid) ==
    Dispatch([Command("delete_key_pair") EXCEPT !.uid = uid],
             delete_key_pair(init_store, uid))

GenerateKeyPair(label) ==
    /\ Len(init_store.keys.sec) < MaxSecretKeys
    /\ init_store.keys.pub < MaxPublicKeys
    /\ Dispatch([Command("generate_key_pair") EXCEPT !.label = label],
                generate_key_pair(init_store, label))

ListKeys ==
    /\ init_store.keys.pub + Len(Slots(init_store.key_store)) <= MaxPublicKeys
    /\ Dispatch(Command("list_keys"), list_keys(init_store))

SetUnlockSecret(secret) ==
    Dispatch([Command("set_unlock_secret") EXCEPT !.pin = secret],
             set_unlock_secret(init_store, secret))

GetAead(key_id) ==
    Dispatch([Command("get_aead") EXCEPT !.uid = key_id], get_aead(init_store, key_id))

Register(label, base32_secret, period_seconds) ==
    /\ Len(init_store.keys.sec) < MaxTotpKeys
    /\ Dispatch([Command("register") EXCEPT !.label = label, !.secret = base32_secret,
                                            !.period = period_seconds],
                register(init_store, label, base32_secret, period_seconds))

Authenticate(label, timestamp, confirmed) ==
    Dispatch([Command("authenticate") EXCEPT !.label = label, !.timestamp = timestamp,
                                                !.confirmed = confirmed],
             authenticate(init_store, label, timestamp, confirmed))

NoCommandYet ==
    [op |-> "none", label |-> <<>>, pin |-> 0, uid |-> 0, secret |-> <<>>,
     period |-> 0, timestamp |-> 0, confirmed |-> FALSE,
     result |-> Ok, written |-> <<>>, resp |-> NoResp, calls |-> <<>>,
     pre |-> EmptyStore]

\* The state file a run of the vault starts from: a new file, or the file of
\* a device whose records were set up beforehand (the vault's records are
\* never created by a read, wireguard.rs:228-233): the unlock record missing
\* or false, the key collection missing, empty (zero bytes) or holding no
\* slot.
Init ==
    /\ formatted \in BOOLEAN
    /\ unlocked_status \in
          (IF formatted THEN {NoFile, File(to_slice_UnlockStatus(FALSE))} ELSE {NoFile})
    /\ key_store \in
          (IF formatted THEN {NoFile, File(<<>>), File(to_slice_KeyInfos(<<>>))}
           ELSE {NoFile})
    /\ credentials = NoCredentials
    /\ keys = NoKeys
    /\ last = NoCommandYet
    /\ registered = <<>>
    /\ hexstr_upper = FALSE   \* no command of the vault formats an address
    /\ running = NotStarted

\* The commands main.rs dispatches to the Wireguard app
Next ==
    \/ \E pin \in Pins : Unlock(pin)
    \/ RegisterKeyPair(Label(1))
    \/ UpdateKeyPair(Label(1))
    \/ \E uid \in Uids : DeleteKeyPair(uid)
    \/ \E label \in OfferedLabels : GenerateKeyPair(label)
    \/ ListKeys
    \/ \E secret \in Pins : SetUnlockSecret(secret)
    \/ GetAead(0)

Spec == Init /\ [][Next]_vars

\* The authenticator app starts from a new state file
InitTotp ==
    /\ formatted = FALSE
    /\ unlocked_status = NoFile
    /\ key_store = NoFile
    /\ credentials = NoCredentials
    /\ keys = NoKeys
    /\ last = NoCommandYet
    /\ registered = <<>>
    /\ hexstr_upper \in BOOLEAN
    /\ running = NotStarted

\* The commands of the Authenticator app
NextTotp ==
    \/ \E i \in RegisterInputs : Register(i[1], i[2], i[3])
    \/ \E i \in AuthenticateInputs : Authenticate(i[1], i[2], i[3])

SpecTotp == InitTotp /\ [][NextTotp]_vars

----------------------------------------------------------------------------
(* The codec of the persisted records, applied to values of its own *)

\* A label of n bytes
BytesLabel(n, b) == [i \in 1..n |-> b]

\* Labels of no byte, of few, on both sides of the length that needs a second
\* varint byte, and of the most bytes a label has
CodecLabels ==
    {<<>>, Label(1), Alice, BytesLabel(127, 7), BytesLabel(128, 128),
     BytesLabel(LabelCap, 255)}

CodecCredentials ==
    [label : CodecLabels, period_seconds : {0, 1, 30, 255, 256, 65536, 2147483647},
     key_handle : {0, 1, 255}]

CodecKeyInfo == [label : CodecLabels, privkey : {1, 255}]

\* Collections of 0 to Capacity slots: all present, all tombstones, every
\* second one a tombstone, the first one a tombstone; with labels of 2 bytes
\* or of LabelCap bytes
CodecSlot(i, pattern, long) ==
    IF \/ pattern = "tombstones"
       \/ pattern = "alternate" /\ i % 2 = 0
       \/ pattern = "first" /\ i = 1
    THEN None
    ELSE Some([label |-> IF long THEN BytesLabel(LabelCap, i) ELSE Label(i),
               privkey |-> i])

CodecKeyInfos ==
    {[i \in 1..n |-> CodecSlot(i, pattern, long)] :
        n \in 0..Capacity,
        pattern \in {"present", "tombstones", "alternate", "first"},
        long \in BOOLEAN}

\* A value is encoded and the bytes are decoded; the store is not touched
Codec(op, value, bytes, decoded) ==
    /\ last' = [op |-> op, value |-> value, bytes |-> bytes, decoded |-> decoded]
    /\ UNCHANGED <<formatted, unlocked_status, key_store, credentials, keys,
                   registered, hexstr_upper, running>>

CodecCredential(c) ==
    LET bytes == to_slice_Credential(c)
    IN Codec("Credential", c, bytes, from_bytes_Credential(bytes))

CodecOneKeyInfo(ki) ==
    LET bytes == to_slice_KeyInfo(ki)
        d == take_KeyInfo(bytes, 1)
    IN Codec("KeyInfo", ki, bytes,
             [ok |-> d.ok /\ d.next = Len(bytes) + 1,
              val |-> [label |-> d.val.label, privkey |-> d.val.privkey]])

CodecCollection(v) ==
    LET bytes == to_slice_KeyInfos(v)
    IN Codec("KeyInfos", v, bytes, from_bytes_KeyInfos(bytes))

NextCodec ==
    \/ \E c \in CodecCredentials : CodecCredential(c)
    \/ \E ki \in CodecKeyInfo : CodecOneKeyInfo(ki)
    \/ \E v \in CodecKeyInfos : CodecCollection(v)

SpecCodec == InitTotp /\ [][NextCodec]_vars

----------------------------------------------------------------------------
(* Processes that run generate_key_pair on one state file at the same time *)

\* n entries other than the ones the processes add, with their keys
OtherEntries(n) ==
    [i \in 1..n |-> Some([label |-> Label(NumProcs + i), privkey |-> i])]

\* An unlocked store whose collection has room for the entry of every process
InitConc ==
    /\ formatted = TRUE
    /\ unlocked_status = File(to_slice_UnlockStatus(TRUE))
    /\ \E n \in 0..(Capacity - NumProcs) :
          /\ key_store = File(to_slice_KeyInfos(OtherEntries(n)))
          /\ keys = [sec |-> [i \in 1..n |-> X255Secret(i)], pub |-> 0]
    /\ credentials = NoCredentials
    /\ last = NoCommandYet
    /\ registered = <<>>
    /\ hexstr_upper = FALSE
    /\ running = NotStarted

\* Process p runs generate_key_pair up to the reply to the read_file of
\* get_list_keys: the keys are generated and the collection is in its memory
LoadKeyStore(p) ==
    LET g == generate_x255_secret_key(keys)
        d == derive_x255_public_key(g.keys, g.key)
        l == get_list_keys([init_store EXCEPT !.keys = d.keys])
    IN /\ running[p].pc = "start"
       /\ keys' = d.keys
       /\ running' = [running EXCEPT ![p].pc = IF l.panic THEN "done" ELSE "loaded",
                                     ![p].privkey = g.key,
                                     ![p].key_infos = l.value,
                                     ![p].result = IF l.panic THEN Panic ELSE "none"]
       /\ UNCHANGED <<formatted, unlocked_status, key_store, credentials, last,
                      registered, hexstr_upper>>

\* Process p runs the rest of add_to_key_store on the collection it read:
\* the scan, the push, and the write_file of the whole collection
StoreKeyStore(p) ==
    LET key_infos == running[p].key_infos
        val == [label |-> running[p].label, privkey |-> running[p].privkey]
        dup == \E i \in 1..Len(key_infos) :
                  key_infos[i].some /\ key_infos[i].label = val.label
    IN /\ running[p].pc = "loaded"
       /\ key_store' = IF dup THEN key_store
                       ELSE File(to_slice_KeyInfos(push(key_infos, Some(val))))
       /\ running' = [running EXCEPT ![p].pc = "done",
                                     ![p].result = IF dup THEN DuplicateLabel ELSE Ok]
       /\ UNCHANGED <<formatted, unlocked_status, credentials, keys, last,
                      registered, hexstr_upper>>

NextConc ==
    \/ \E p \in Procs : LoadKeyStore(p)
    \/ \E p \in Procs : StoreKeyStore(p)

SpecConc == InitConc /\ [][NextConc]_vars

----------------------------------------------------------------------------
(* authenticate down to the bytes of the signature.  What sign_totp returns *)
(* is the backend's: any of the byte strings below may be the signature.    *)

\* Signatures whose first 8 bytes are the little-endian bytes of n (below
\* 2^31), alone or followed by more bytes, and one of 7 bytes
SignatureBytes ==
    {to_le_bytes(n, 8) \o rest :
        n \in {0, 1, 755224, 999999, 1000000, 1000001, 16909060, 2147483647},
        rest \in {<<>>, <<255>>, [i \in 1..12 |-> 170]}}
    \cup {<<1, 2, 3, 4, 5, 6, 7>>}

\* The store after register(Alice, .., 30) and register(Bob, .., 60)
RegisteredStore ==
    register(register(EmptyStore, Alice, SecretHello, 30).st, Bob, SecretDigits, 60).st

InitOtp ==
    /\ formatted = TRUE
    /\ hexstr_upper \in BOOLEAN
    /\ unlocked_status = RegisteredStore.unlocked_status
    /\ key_store = RegisteredStore.key_store
    /\ credentials = RegisteredStore.credentials
    /\ keys = RegisteredStore.keys
    /\ last = NoCommandYet
    /\ registered =
          <<[label |-> Alice, secret |-> SecretHello, period |-> 30, key_handle |-> 1,
             filename |-> filename_for_label(Alice)],
            [label |-> Bob, secret |-> SecretDigits, period |-> 60, key_handle |-> 2,
             filename |-> filename_for_label(Bob)]>>
    /\ running = NotStarted

\* authenticate with the bytes the backend returned as the signature
AuthenticateOtp(label, timestamp, confirmed, signature) ==
    LET out == authenticate(init_store, label, timestamp, confirmed)
        otp == otp_from_signature(signature)
        result == IF out.result = Ok /\ otp.panic THEN Panic ELSE out.result
    IN /\ formatted' = TRUE
       /\ unlocked_status' = out.st.unlocked_status
       /\ key_store' = out.st.key_store
       /\ credentials' = out.st.credentials
       /\ keys' = out.st.keys
       /\ last' = [op |-> "authenticate", label |-> label, timestamp |-> timestamp,
                   confirmed |-> confirmed, signature |-> signature,
                   result |-> result, calls |-> out.calls,
                   resp |-> IF result = Ok THEN [out.resp EXCEPT !.otp = otp.value]
                            ELSE NoResp]
       /\ UNCHANGED <<registered, hexstr_upper, running>>

NextOtp ==
    \E label \in TotpLabels, timestamp \in {59, 90}, confirmed \in BOOLEAN,
       signature \in SignatureBytes :
        AuthenticateOtp(label, timestamp, confirmed, signature)

SpecOtp == InitOtp /\ [][NextOtp]_vars

----------------------------------------------------------------------------
(* Both apps on one state file: the keys of the vault and the keys of the   *)
(* credentials are in the one key store of the backend                      *)

\* A state file with an empty key collection, locked
InitBoth ==
    /\ formatted = TRUE
    /\ unlocked_status = File(to_slice_UnlockStatus(FALSE))
    /\ key_store = File(to_slice_KeyInfos(<<>>))
    /\ credentials = NoCredentials
    /\ keys = NoKeys
    /\ last = NoCommandYet
    /\ registered = <<>>
    /\ hexstr_upper \in BOOLEAN
    /\ running = NotStarted

\* generate_key_pair is offered the first unused label, and the first label
\* in use
NextBoth ==
    \/ \E label \in OfferedLabels \ {LongLabel, Label(NumPresent(key_store))} :
          GenerateKeyPair(label)
    \/ ListKeys
    \/ \E i \in {<<Alice, SecretHello, 30>>, <<Bob, SecretDigits, 60>>} :
          Register(i[1], i[2], i[3])
    \/ \E label \in TotpLabels : Authenticate(label, 90, TRUE)

SpecBoth == InitBoth /\ [][NextBoth]_vars

----------------------------------------------------------------------------
(* Properties of the vault and of the unlock gate *)

\* The persisted flag, as a reader that treats a missing record as false
\* would see it
FlagTrue(file) ==
    file.exists /\ from_bytes_UnlockStatus(file.data) = [ok |-> TRUE, val |-> TRUE]

FlagFalse(file) ==
    file.exists /\ from_bytes_UnlockStatus(file.data) = [ok |-> TRUE, val |-> FALSE]

VaultMutating ==
    {"register_key_pair", "update_key_pair", "delete_key_pair", "generate_key_pair"}

FitsLabel(label) == Len(label) <= LabelCap

\* C1: while the persisted unlock flag is false, each vault-mutating
\* operation (register_key_pair, update_key_pair, delete_key_pair,
\* generate_key_pair) fails with DeviceLocked and leaves the persisted key
\* collection unchanged.
C1_LockedGateRejects ==
    (last.op \in VaultMutating /\ FlagFalse(last.pre.unlocked_status))
        => (last.result = DeviceLocked /\ key_store = last.pre.key_store)

\* C2: in every reachable state of the persisted key collection, no two
\* present entries carry the same label.
C2_NoDuplicateLabels ==
    LET v == Slots(key_store)
    IN \A i, j \in 1..Len(v) :
          (i # j /\ v[i].some /\ v[j].some) => v[i].label # v[j].label

\* C2 witness: a collection of several entries that an add with a label
\* already in it has just been tried on
C2_Witness ==
    /\ NumPresent(key_store) >= 3
    /\ last.op = "generate_key_pair"
    /\ last.label \in PresentLabels(last.pre.key_store)

\* C3: generate_key_pair (add_to_key_store through it) with the label of a
\* present entry fails with DuplicateLabel, writes no file and leaves the
\* persisted collection exactly as it was.
C3_DuplicateRejected ==
    (last.op = "generate_key_pair" /\ FitsLabel(last.label)
        /\ last.label \in PresentLabels(last.pre.key_store))
        => (/\ last.result = DuplicateLabel
            /\ last.written = <<>>
            /\ key_store = last.pre.key_store)

\* C3 witness: a generate_key_pair with the label of a present entry of a
\* collection of two has returned
C3_Witness ==
    /\ last.op = "generate_key_pair"
    /\ NumPresent(last.pre.key_store) = 2
    /\ last.label \in PresentLabels(last.pre.key_store)
    /\ last.result = DuplicateLabel

\* C4: when the collection holds 8 occupied slots, generate_key_pair with a
\* new label fails with VaultFull and leaves the collection unchanged.
C4_FullVaultRejects ==
    (last.op = "generate_key_pair" /\ FitsLabel(last.label)
        /\ NumPresent(last.pre.key_store) = Capacity
        /\ last.label \notin PresentLabels(last.pre.key_store))
        => (last.result = VaultFull /\ key_store = last.pre.key_store)

\* C5: from a vault with 8 present entries, after a successful
\* delete_key_pair of a present entry (uid is its slot, counted from 0), a
\* generate_key_pair with a label not present succeeds and stores the new
\* entry in the freed slot.
C5_AddAfterDelete ==
    [][(/\ last.op = "delete_key_pair"
        /\ last.result = Ok
        /\ NumPresent(last.pre.key_store) = Capacity
        /\ Slots(last.pre.key_store)[last.uid + 1].some
        /\ last'.op = "generate_key_pair"
        /\ FitsLabel(last'.label)
        /\ last'.label \notin PresentLabels(last.pre.key_store))
       => (/\ last'.result = Ok
           /\ Slots(key_store')[last.uid + 1].some
           /\ Slots(key_store')[last.uid + 1].label = last'.label)]_vars

\* C6: unlock(pin) opens the gate only when pin equals the unlock secret set
\* by set_unlock_secret; an unlock with another pin fails and leaves the
\* persisted flag false, so that a following generate_key_pair fails with
\* DeviceLocked.
C6_WrongPinRejected ==
    [][(/\ last.op = "set_unlock_secret"
        /\ last.result = Ok
        /\ ~FlagTrue(unlocked_status)
        /\ last'.op = "unlock"
        /\ last'.pin # last.pin)
       => (last'.result # Ok /\ ~FlagTrue(unlocked_status'))]_vars

\* C7: on a store whose unlock-status record is missing the flag is read as
\* false: a privileged operation (register_key_pair reads the gate) returns
\* DeviceLocked, it neither succeeds nor aborts.
C7_AbsentFlagReadsLocked ==
    (last.op = "register_key_pair" /\ ~last.pre.unlocked_status.exists)
        => last.result = DeviceLocked

\* C8: once the persisted unlock flag is true it stays true, whatever
\* command a later process runs on the same state file.
C8_UnlockedStaysUnlocked ==
    [][FlagTrue(unlocked_status) => FlagTrue(unlocked_status')]_vars

\* C8 witness: a command other than unlock has run on an unlocked store, and
\* the flag is true
C8_Witness ==
    /\ FlagTrue(last.pre.unlocked_status)
    /\ last.op = "generate_key_pair"
    /\ FlagTrue(unlocked_status)

\* C9: with the gate unlocked, generate_key_pair(label) with a label not in
\* the vault and a free slot succeeds, adds exactly one present entry, which
\* holds the label and the handle of the key just generated, and returns the
\* label with the public key of that key.
C9_GenerateStores ==
    (last.op = "generate_key_pair" /\ FitsLabel(last.label)
        /\ FlagTrue(last.pre.unlocked_status)
        /\ last.label \notin PresentLabels(last.pre.key_store)
        /\ Len(Slots(last.pre.key_store)) < Capacity)
        => (/\ last.result = Ok
            /\ Slots(key_store) =
                 Append(Slots(last.pre.key_store),
                        [some |-> TRUE, label |-> last.label,
                         privkey |-> Len(last.pre.keys.sec) + 1])
            /\ Len(keys.sec) = Len(last.pre.keys.sec) + 1
            /\ last.resp.label = last.label
            /\ last.resp.pubkey = keys.sec[Len(keys.sec)].material)

\* The positions in the history of the registers of a label
RegistersOf(label) == {i \in 1..Len(registered) : registered[i].label = label}

Latest(positions) == CHOOSE i \in positions : \A j \in positions : j <= i

\* The label was registered at least twice, the last two times with different
\* secrets
ReRegistered(label) ==
    /\ Cardinality(RegistersOf(label)) >= 2
    /\ LET second == Latest(RegistersOf(label))
           first == Latest(RegistersOf(label) \ {second})
       IN registered[first].secret # registered[second].secret

\* C10: once a label has been registered twice with different secrets, the
\* file at its address holds the credential of the second register alone, and
\* authenticate for the label finds it and asks the backend to sign under the
\* key handle the second register imported, with the counter computed from
\* the second register's period_seconds; the second register returned Ok.
C10_ReRegisterOverwrites ==
    \A label \in TotpLabels :
        ReRegistered(label) =>
            LET second == registered[Latest(RegistersOf(label))] IN
            /\ credentials[filename_for_label(label)] =
                 File(to_slice_Credential([label |-> label,
                                           period_seconds |-> second.period,
                                           key_handle |-> second.key_handle]))
            /\ (/\ last.op = "register" /\ last.label = label
                /\ last.secret \in {SecretHello, SecretDigits}) => last.result = Ok
            /\ (last.op = "authenticate" /\ last.label = label) =>
                 /\ last.result \notin {CredentialNotFound, DecodingError}
                 /\ second.period # 0 =>
                      /\ last.calls # <<>>
                      /\ last.calls[1] =
                           SignCall(second.key_handle,
                                    last.timestamp \div second.period)
                      /\ last.result = Ok =>
                           last.resp.otp =
                             <<BASE32_decode(second.secret).bytes,
                               last.timestamp \div second.period>>

\* C10 witness: authenticate returned a one-time password for a label that
\* was registered twice, with two secrets and two periods
C10_Witness ==
    /\ last.op = "authenticate"
    /\ last.result = Ok
    /\ ReRegistered(last.label)
    /\ LET second == Latest(RegistersOf(last.label))
           first == Latest(RegistersOf(last.label) \ {second})
       IN /\ registered[first].period # registered[second].period
          /\ registered[first].period # 0
          /\ last.timestamp \div registered[first].period
               # last.timestamp \div registered[second].period

\* The store a command leaves is the store it found
StoreUnchanged ==
    /\ unlocked_status = last.pre.unlocked_status
    /\ key_store = last.pre.key_store
    /\ credentials = last.pre.credentials
    /\ keys = last.pre.keys

\* C11: authenticate for a label that no successful register has stored
\* fails with CredentialNotFound, sends the backend neither a sign request
\* nor a user-presence request, and leaves the store as it was.
C11_UnregisteredNotFound ==
    (last.op = "authenticate" /\ RegistersOf(last.label) = {})
        => (/\ last.result = CredentialNotFound
            /\ last.calls = <<>>
            /\ last.resp = NoResp
            /\ StoreUnchanged)

\* C11 witness: another label is registered, and authenticate was asked for a
\* label that is not
C11_Witness ==
    /\ last.op = "authenticate"
    /\ registered # <<>>
    /\ RegistersOf(last.label) = {}
    /\ last.label \in TotpLabels
    /\ last.result = CredentialNotFound

\* The credential the command run last found stored for its label
StoredBefore ==
    LET file == last.pre.credentials[filename_for_label(last.label)]
    IN IF file.exists THEN from_bytes_Credential(file.data)
       ELSE [ok |-> FALSE, val |-> NoCredential]

\* C12: when the credential stored for the label has period_seconds = p > 0,
\* authenticate with timestamp t asks the backend to sign the counter q with
\* q * p <= t < (q + 1) * p: for t = k * p that is k, and for t = k * p - 1 it
\* is k - 1.
C12_CounterIsFloor ==
    (last.op = "authenticate" /\ StoredBefore.ok
        /\ StoredBefore.val.period_seconds > 0)
        => LET p == StoredBefore.val.period_seconds
               t == last.timestamp
           IN /\ last.calls # <<>>
              /\ last.calls[1].call = "sign_totp"
              /\ last.calls[1].counter * p <= t
              /\ t < (last.calls[1].counter + 1) * p
              /\ \A k \in 0..t :
                    /\ t = k * p => last.calls[1].counter = k
                    /\ (k >= 1 /\ t = k * p - 1) => last.calls[1].counter = k - 1

\* C12 witness: a timestamp one second below a multiple of the period
C12_Witness ==
    /\ last.op = "authenticate"
    /\ StoredBefore.ok
    /\ StoredBefore.val.period_seconds = 30
    /\ last.timestamp = 59
    /\ last.calls # <<>>
    /\ last.calls[1].counter = 1

\* The register of the label that succeeded last
LatestRegister(label) == registered[Latest(RegistersOf(label))]

\* The 10 bytes "JBSWY3DPEHPK3PXP" stands for: "Hello!" DE AD BE EF
HelloBytes == <<72, 101, 108, 108, 111, 33, 222, 173, 190, 239>>

\* C13 as the specification states it: register("alice@example",
\* "JBSWY3DPEHPK3PXP", 30) succeeds.
C13_ScenarioA ==
    (last.op = "register" /\ last.label = Alice /\ last.secret = SecretShort
        /\ last.period = 30)
        => last.result = Ok

\* C13, amended: register("alice@example", "JBSWY3DPEHPK3PXP", 30) fails
\* with InvalidSecretLength (the secret has 10 bytes) and changes nothing;
\* register("alice@example", "JBSWY3DPEHPK3PXPJBSWY3DPEHPK3PXP", 30) succeeds,
\* and an authenticate("alice@example", 90) that follows it asks the backend
\* to sign counter 3 under the key handle that register created and, once
\* the user is confirmed present, returns the signature of counter 3 under
\* the 20 bytes of that secret.
C13_ScenarioA20Bytes ==
    /\ (last.op = "register" /\ last.label = Alice /\ last.secret = SecretShort
            /\ last.period = 30)
          => (last.result = InvalidSecretLength /\ StoreUnchanged)
    /\ (last.op = "register" /\ last.label = Alice /\ last.secret = SecretHello
            /\ last.period = 30)
          => (/\ last.result = Ok
              /\ LatestRegister(Alice).key_handle = Len(last.pre.keys.sec) + 1)
    /\ (/\ last.op = "authenticate" /\ last.label = Alice /\ last.timestamp = 90
        /\ RegistersOf(Alice) # {}
        /\ LatestRegister(Alice).secret = SecretHello
        /\ LatestRegister(Alice).period = 30)
          => (/\ last.calls # <<>>
              /\ last.calls[1] = SignCall(LatestRegister(Alice).key_handle, 3)
              /\ last.confirmed =>
                    /\ last.result = Ok
                    /\ last.resp.kind = "Otp"
                    /\ last.resp.otp = <<HelloBytes \o HelloBytes, 3>>)

\* C13 witness: the one-time password of counter 3 was returned for
\* "alice@example", registered with the 20-byte secret and period 30
C13_Witness ==
    /\ last.op = "authenticate" /\ last.label = Alice /\ last.timestamp = 90
    /\ RegistersOf(Alice) # {}
    /\ LatestRegister(Alice).secret = SecretHello
    /\ LatestRegister(Alice).period = 30
    /\ last.result = Ok
    /\ last.resp.otp = <<HelloBytes \o HelloBytes, 3>>

\* Whether a string is base32 as RFC 4648 has it: a whole number of blocks of
\* 8 symbols, each of A-Z or 2-7 (the strings offered carry no padding)
IsBase32(str) ==
    /\ Len(str) % 8 = 0
    /\ \A i \in 1..Len(str) :
          str[i] \in {"A", "B", "C", "D", "E", "F", "G", "H", "I", "J", "K", "L", "M",
                      "N", "O", "P", "Q", "R", "S", "T", "U", "V", "W", "X", "Y", "Z",
                      "2", "3", "4", "5", "6", "7"}

\* C14: register fails with InvalidSecretEncoding when base32_secret is not
\* base32, and with InvalidSecretLength when it is base32 for a number of
\* bytes other than 20 (8 symbols stand for 5 bytes); either way no key is
\* imported and no file is written.  It fails in these ways for no other
\* secret.
C14_SecretErrors ==
    last.op = "register" =>
        /\ ~IsBase32(last.secret) <=> last.result = InvalidSecretEncoding
        /\ (IsBase32(last.secret) /\ (Len(last.secret) \div 8) * 5 # 20)
              <=> last.result = InvalidSecretLength
        /\ last.result \in {InvalidSecretEncoding, InvalidSecretLength}
              => (/\ keys = last.pre.keys
                  /\ credentials = last.pre.credentials
                  /\ last.written = <<>>
                  /\ StoreUnchanged)

\* C14 witness: a secret of 10 bytes was refused on a store that holds a key
\* and a credential already
C14_Witness ==
    /\ last.op = "register"
    /\ last.secret = SecretShort
    /\ last.result = InvalidSecretLength
    /\ registered # <<>>
    /\ Len(keys.sec) >= 1

\* C15: register refuses period_seconds = 0, so no credential stored has
\* period_seconds = 0, and authenticate never divides by zero.
C15_ZeroPeriodRejected ==
    /\ (last.op = "register" /\ last.period = 0) => last.result # Ok
    /\ \A a \in Addresses :
          credentials[a].exists =>
              from_bytes_Credential(credentials[a].data).val.period_seconds # 0
    /\ last.op = "authenticate" => last.result # Panic

\* The user-presence requests among the backend calls of the command run last
PresenceRequests ==
    {i \in 1..Len(last.calls) : last.calls[i].call = "confirm_user_present"}

\* C16: authenticate returns a one-time password only when the backend
\* confirmed the user's presence for that call; when the confirmation is not
\* given, authenticate fails with UserPresenceTimeout and returns no
\* one-time password; a call sends at most one presence request, with a
\* timeout of 5000 ms, and exactly one when it returns a one-time password
\* or UserPresenceTimeout.
C16_PresenceBeforeOtp ==
    last.op = "authenticate" =>
        /\ Cardinality(PresenceRequests) <= 1
        /\ \A i \in PresenceRequests : last.calls[i] = PresenceCall(5000)
        /\ last.result = Ok =>
              /\ last.confirmed
              /\ Cardinality(PresenceRequests) = 1
              /\ last.resp.kind = "Otp"
        /\ last.result = UserPresenceTimeout =>
              /\ ~last.confirmed
              /\ Cardinality(PresenceRequests) = 1
              /\ last.resp = NoResp
        /\ (~last.confirmed /\ PresenceRequests # {}) =>
              last.result = UserPresenceTimeout
        /\ last.resp.kind = "Otp" => last.result = Ok

\* C16 witness: a one-time password was returned, after the sign request and
\* one confirmed presence request
C16_Witness ==
    /\ last.op = "authenticate"
    /\ last.result = Ok
    /\ last.confirmed
    /\ Len(last.calls) = 2
    /\ last.calls[1].call = "sign_totp"
    /\ last.calls[2] = PresenceCall(5000)

\* C17: list_keys never fails: when the collection record is missing or does
\* not decode, it returns success as for an empty collection.
C17_ListKeysNeverFails ==
    last.op = "list_keys" =>
        /\ last.result = Ok
        /\ Slots(last.pre.key_store) = <<>> => last.resp = StubResp

\* C18: list_keys and get_aead succeed while the gate is locked, the unlock
\* record being false or absent.
C18_UngatedReads ==
    (last.op \in {"list_keys", "get_aead"} /\ ~FlagTrue(last.pre.unlocked_status))
        => last.result = Ok

\* C19: with the gate unlocked, delete_key_pair(id) of a present entry makes
\* that slot a tombstone and rewrites the collection; the other slots keep
\* their place and content, and the label deleted is present no longer.
C19_DeleteTombstones ==
    (/\ last.op = "delete_key_pair"
     /\ FlagTrue(last.pre.unlocked_status)
     /\ last.uid + 1 <= Len(Slots(last.pre.key_store))
     /\ Slots(last.pre.key_store)[last.uid + 1].some)
        => LET before == Slots(last.pre.key_store) IN
           /\ last.result = Ok
           /\ Slots(key_store) = [before EXCEPT ![last.uid + 1] = None]
           /\ before[last.uid + 1].label \notin PresentLabels(key_store)
           /\ \E i \in 1..Len(last.written) : last.written[i] = KeyStorePath

\* The value of a hexadecimal digit, lower case when asked for one, upper
\* case otherwise; 16 for any other character
HexDigitValue(c, lower) ==
    CASE c = "0" -> 0 [] c = "1" -> 1 [] c = "2" -> 2 [] c = "3" -> 3
      [] c = "4" -> 4 [] c = "5" -> 5 [] c = "6" -> 6 [] c = "7" -> 7
      [] c = "8" -> 8 [] c = "9" -> 9
      [] lower /\ c = "a" -> 10 [] lower /\ c = "b" -> 11 [] lower /\ c = "c" -> 12
      [] lower /\ c = "d" -> 13 [] lower /\ c = "e" -> 14 [] lower /\ c = "f" -> 15
      [] ~lower /\ c = "A" -> 10 [] ~lower /\ c = "B" -> 11 [] ~lower /\ c = "C" -> 12
      [] ~lower /\ c = "D" -> 13 [] ~lower /\ c = "E" -> 14 [] ~lower /\ c = "F" -> 15
      [] OTHER -> 16

\* An address spells the first 8 bytes of the digest of the label in 16
\* hexadecimal digits of one letter case
SpellsDigest(filename, label, lower) ==
    /\ Len(filename) = 16
    /\ \A k \in 1..8 :
          /\ HexDigitValue(filename[2 * k - 1], lower) < 16
          /\ HexDigitValue(filename[2 * k], lower) < 16
          /\ 16 * HexDigitValue(filename[2 * k - 1], lower)
                + HexDigitValue(filename[2 * k], lower)
                = Sha256Prefix(label)[k]

\* The address of a label is the same in every run and on every store: two
\* registers of one label wrote the same file, and authenticate looks for a
\* registered label's credential at that file
SameAddressEveryRun ==
    /\ \A i, j \in 1..Len(registered) :
          registered[i].label = registered[j].label
              => registered[i].filename = registered[j].filename
    /\ (last.op = "register" /\ last.result = Ok)
          => last.written = <<registered[Len(registered)].filename>>
    /\ (last.op = "authenticate" /\ RegistersOf(last.label) # {})
          => (/\ last.result # CredentialNotFound
              /\ last.pre.credentials[LatestRegister(last.label).filename].exists
              /\ StoredBefore.val.label = last.label)

C22_NoCommandAborts ==
    last.op \in {"unlock", "register_key_pair", "update_key_pair",
                 "delete_key_pair", "generate_key_pair", "list_keys",
                 "set_unlock_secret", "get_aead"}
        => last.result # Panic

WireguardOps ==
    {"unlock", "register_key_pair", "update_key_pair", "delete_key_pair",
     "generate_key_pair", "list_keys", "set_unlock_secret", "get_aead"}

\* C23: every failure reaches the caller: generate_key_pair returns success
\* only when its entry was stored in the collection (the push did not fail),
\* and the dispatcher does not report success for a command that failed.
C23_FailuresReachCaller ==
    /\ (last.op = "generate_key_pair" /\ last.result = Ok)
          => last.label \in PresentLabels(key_store)
    /\ (last.op \in WireguardOps /\ last.result # Ok) => main(last.result) # Ok

\* C24: get_aead returns an AEAD value only after the backend confirmed the
\* user's presence for the call: a get_aead that succeeds has asked the
\* backend for the confirmation.
C24_AeadAfterPresence ==
    (last.op = "get_aead" /\ last.result = Ok) => PresenceRequests # {}

\* C25: the load-mutate-store sequence on the key collection has one writer
\* at a time: no process holds a collection it read while another one holds
\* one too, and once the concurrent generate_key_pair calls, of distinct
\* labels, have all returned success, the entry of each is in the collection.
C25_OneWriter ==
    /\ Cardinality({p \in Procs : running[p].pc = "loaded"}) <= 1
    /\ (\A p \in Procs : running[p].pc = "done" /\ running[p].result = Ok)
          => \A p \in Procs : running[p].label \in PresentLabels(key_store)

\* C26: in every reachable state the key collection that is persisted has
\* at most 8 slots: the record, when it holds a collection, holds the
\* encoding of a sequence of at most 8 slots.
C26_AtMostCapacitySlots ==
    LET n == take_varint(key_store.data, 1)
    IN (key_store.exists /\ n.ok)
          => (n.val <= Capacity /\ from_bytes_KeyInfos(key_store.data).ok)

\* C26 witness: generate_key_pair of a new label has run on a collection of
\* 8 slots, and the collection persisted has 8 slots
C26_Witness ==
    /\ last.op = "generate_key_pair"
    /\ FitsLabel(last.label)
    /\ Len(Slots(last.pre.key_store)) = Capacity
    /\ last.label \notin PresentLabels(last.pre.key_store)
    /\ last.written = <<KeyStorePath>>
    /\ Len(Slots(key_store)) = Capacity

\* s is the beginning of t
IsPrefix(s, t) == Len(s) <= Len(t) /\ s = SubSeq(t, 1, Len(s))

\* C27: an add to the key collection (add_to_key_store, run by
\* generate_key_pair) that succeeds writes one file, the record of the
\* collection, with the whole collection encoded anew, and no other file;
\* one that fails writes no file.
C27_AddWritesOnce ==
    last.op = "generate_key_pair" =>
        /\ unlocked_status = last.pre.unlocked_status
        /\ credentials = last.pre.credentials
        /\ last.result = Ok =>
              /\ last.written = <<KeyStorePath>>
              /\ key_store.exists
              /\ from_bytes_KeyInfos(key_store.data).ok
              /\ key_store.data = to_slice_KeyInfos(Slots(key_store))
              /\ IsPrefix(Slots(last.pre.key_store), Slots(key_store))
        /\ last.result # Ok =>
              /\ last.written = <<>>
              /\ key_store = last.pre.key_store

\* C27 witness: an add has succeeded on a collection that held entries, and
\* an entry more is in the record written
C27_Witness ==
    /\ last.op = "generate_key_pair"
    /\ last.result = Ok
    /\ NumPresent(last.pre.key_store) >= 2
    /\ last.written = <<KeyStorePath>>
    /\ Slots(key_store) =
          Append(Slots(last.pre.key_store),
                 Some([label |-> last.label, privkey |-> Len(last.pre.keys.sec) + 1]))

\* The store as it is now
StoreNow ==
    [unlocked_status |-> unlocked_status, key_store |-> key_store,
     credentials |-> credentials, keys |-> keys]

\* authenticate gives the same on the stores s and t
SameAuthenticate(s, t, label) ==
    \A timestamp \in {59, 90}, confirmed \in BOOLEAN :
        LET a == authenticate(s, label, timestamp, confirmed)
            b == authenticate(t, label, timestamp, confirmed)
        IN a.result = b.result /\ a.resp = b.resp /\ a.calls = b.calls

\* C28: a register that succeeds writes one file, the one at
\* filename_for_label(label): the files at the other addresses, the key
\* collection and the unlock record are as before, and authenticate for
\* another label gives what it gave before.
C28_RegisterFrame ==
    (last.op = "register" /\ last.result = Ok) =>
        /\ last.written = <<filename_for_label(last.label)>>
        /\ credentials[filename_for_label(last.label)].exists
        /\ \A a \in Addresses \ {filename_for_label(last.label)} :
              credentials[a] = last.pre.credentials[a]
        /\ key_store = last.pre.key_store
        /\ unlocked_status = last.pre.unlocked_status
        /\ \A label \in TotpLabels \ {last.label} :
              SameAuthenticate(last.pre, StoreNow, label)

\* C28 witness: a register has succeeded while the credential of another
\* label was stored, for which authenticate succeeds
C28_Witness ==
    /\ last.op = "register"
    /\ last.result = Ok
    /\ \E label \in TotpLabels \ {last.label} :
          /\ last.pre.credentials[filename_for_label(label)].exists
          /\ credentials[filename_for_label(label)].exists
          /\ authenticate(StoreNow, label, 90, TRUE).result = Ok

\* C29: authenticate, whatever it returns, leaves every credential file,
\* the key collection, the unlock record and the keys as they were; an
\* authenticate that follows one with the same label and timestamp asks the
\* backend to sign the same counter with the same key handle.
C29_AuthenticateFrame ==
    [][last'.op = "authenticate" =>
          /\ UNCHANGED <<credentials, key_store, unlocked_status, keys>>
          /\ last'.written = <<>>
          /\ (/\ last.op = "authenticate"
              /\ last.label = last'.label
              /\ last.timestamp = last'.timestamp
              /\ last.calls # <<>>)
                => (last'.calls # <<>> /\ last'.calls[1] = last.calls[1])]_vars

\* C29 witness: authenticate has returned a password, the store is as it
\* was before the call, and the same call on it signs the same counter
\* with the same handle
C29_Witness ==
    /\ last.op = "authenticate"
    /\ last.result = Ok
    /\ last.pre.credentials[filename_for_label(last.label)].exists
    /\ StoreNow = last.pre
    /\ last.calls[1].call = "sign_totp"
    /\ authenticate(StoreNow, last.label, last.timestamp, TRUE).calls[1] = last.calls[1]

\* C30: the Otp authenticate returns is the unsigned integer whose 8
\* little-endian bytes are the first 8 bytes of the signature; it is not
\* reduced modulo 1,000,000, and the bytes after the eighth play no part.
C30_OtpIsLittleEndian ==
    (last.op = "authenticate" /\ last.result = Ok) =>
        /\ last.resp.kind = "Otp"
        /\ last.resp.otp >= 0
        /\ to_le_bytes(last.resp.otp, 8) = SubSeq(last.signature, 1, 8)

\* C30 witness: a signature of 20 bytes whose first 8 are 04 03 02 01 00 00
\* 00 00 was returned: the Otp is 16909060, which is above 999,999
C30_Witness ==
    /\ last.op = "authenticate"
    /\ last.result = Ok
    /\ Len(last.signature) = 20
    /\ SubSeq(last.signature, 1, 8) = <<4, 3, 2, 1, 0, 0, 0, 0>>
    /\ last.resp.otp = 16909060

\* C31: register with a label of more than 256 bytes, whose credential
\* cannot be encoded, fails and leaves the backend as it was: no credential
\* file is written and no key imported by the call stays in the key store.
C31_FailedRegisterLeavesNoKey ==
    (last.op = "register" /\ Len(last.label) > LabelCap
        /\ last.secret \in {SecretHello, SecretDigits}) =>
        /\ last.result # Ok
        /\ last.written = <<>>
        /\ credentials = last.pre.credentials
        /\ keys = last.pre.keys

\* The labels of the present entries of a collection, in the order of
\* their slots
LabelsOf(v) ==
    LET present == SelectSeq(v, LAMBDA o : o.some)
    IN [i \in 1..Len(present) |-> present[i].label]

\* The vault the specification describes, after the command run last: the
\* vault before it, with the entry of a generate_key_pair that reported
\* success added at the end, and without the entry that a delete_key_pair
\* that reported success names
AbstractVault ==
    LET before == Slots(last.pre.key_store)
    IN IF last.op = "generate_key_pair" /\ last.result = Ok
       THEN Append(LabelsOf(before), last.label)
       ELSE IF /\ last.op = "delete_key_pair" /\ last.result = Ok
               /\ last.uid + 1 <= Len(before)
       THEN LabelsOf([before EXCEPT ![last.uid + 1] = None])
       ELSE LabelsOf(before)

\* C32: under serial dispatch the present entries of the persisted
\* collection are, after each command, those of the vault built from the
\* history: an add that reported success is in it, at the end; one that
\* reported a failure added nothing; an entry deleted is gone.
C32_RefinesAbstractVault ==
    last.op \in WireguardOps => LabelsOf(Slots(key_store)) = AbstractVault

\* C33: unlock is the only command that writes the unlock record, and it
\* writes nothing else: it leaves the key collection and the credential
\* files as they were; every other command of the vault leaves the unlock
\* record as it was.
C33_OnlyUnlockWritesFlag ==
    /\ last.op = "unlock" =>
          /\ key_store = last.pre.key_store
          /\ credentials = last.pre.credentials
          /\ \A i \in 1..Len(last.written) : last.written[i] = UnlockedStatusPath
    /\ last.op \in WireguardOps \ {"unlock"} =>
          /\ unlocked_status = last.pre.unlocked_status
          /\ \A i \in 1..Len(last.written) : last.written[i] # UnlockedStatusPath

\* C33 witness: unlock has set the flag on a store whose collection holds
\* entries, and the collection is the one it was
C33_Witness ==
    /\ last.op = "unlock"
    /\ last.result = Ok
    /\ ~FlagTrue(last.pre.unlocked_status)
    /\ FlagTrue(unlocked_status)
    /\ last.written = <<UnlockedStatusPath>>
    /\ NumPresent(last.pre.key_store) >= 2
    /\ key_store = last.pre.key_store

\* C34: a generate_key_pair that fails with DeviceLocked, DuplicateLabel or
\* VaultFull leaves the backend as it was: the collection is untouched and
\* no key generated by the call stays in the key store.
C34_FailedGenerateLeavesNoKey ==
    (last.op = "generate_key_pair"
        /\ last.result \in {DeviceLocked, DuplicateLabel, VaultFull}) =>
        /\ key_store = last.pre.key_store
        /\ keys = last.pre.keys

\* The handle names a key of the kind in the backend's key store
KeyExists(handle, kind) ==
    handle \in 1..Len(keys.sec) /\ keys.sec[handle].kind = kind

\* C35: in every reachable state the key handle of every present entry of
\* the collection and of every credential stored names a key that is in the
\* backend's key store, so the handle authenticate gives the backend to
\* sign with is the handle of a key that exists, and neither authenticate
\* nor list_keys aborts on a handle.
C35_NoDanglingHandle ==
    /\ \A i \in 1..Len(Slots(key_store)) :
          Slots(key_store)[i].some
              => KeyExists(Slots(key_store)[i].privkey, "X255Secret")
    /\ \A a \in Addresses :
          credentials[a].exists =>
              LET d == from_bytes_Credential(credentials[a].data)
              IN d.ok /\ KeyExists(d.val.key_handle, "Totp")
    /\ (last.op = "authenticate" /\ last.calls # <<>>)
          => KeyExists(last.calls[1].key, "Totp")
    /\ last.op \in {"authenticate", "list_keys"} => last.result # Panic

\* C35 witness: authenticate has signed with the key of a credential
\* registered after a key pair was generated, and the collection holds
\* entries generated before and after the registration
C35_Witness ==
    /\ last.op = "authenticate"
    /\ last.result = Ok
    /\ last.calls[1].key = 2
    /\ NumPresent(key_store) >= 2
    /\ Slots(key_store)[1].privkey = 1
    /\ Slots(key_store)[2].privkey = 3

====
